---------------------------- MODULE Spec2Model ----------------------------
(***************************************************************************)
(* Model of the DataCerebrium client: the App workflow controller          *)
(* (connect -> scanning -> results), the ConnectionForm that gates the     *)
(* Test and Scan actions, and the backend requests in flight.              *)
(*                                                                         *)
(* A nullable value (T | null) is a sequence of length 0 or 1: None is     *)
(* null, Some(x) is the value x.  One action is one synchronous piece of   *)
(* a handler: the part of an async handler before its await, or the        *)
(* continuation run when the awaited request resolves or rejects (React    *)
(* batches the setState calls of one such piece into one render).          *)
(***************************************************************************)
EXTENDS Integers, Sequences, FiniteSets, TLC

None == << >>
Some(x) == << x >>

\* JavaScript truthiness of a nullable string: null, undefined and "" are falsy.
Truthy(s) == s # None /\ s[1] # ""

(***************************************************************************)
(* Bounds of the model.                                                    *)
(***************************************************************************)
\* Most requests the model lets be in flight at once (the code has no limit).
MaxInFlight == 3

(***************************************************************************)
(* ConnectionForm.tsx: parameters, defaults, and what the user can type.   *)
(***************************************************************************)
DEFAULT_PARAMS ==
  [ db_type     |-> "postgresql",
    host        |-> "localhost",
    port        |-> 5432,
    database    |-> "postgres",
    schema_name |-> "redacted_db",
    user        |-> "",
    password    |-> "" ]

DbTypes == {"postgresql", "mysql", "snowflake", "mongodb"}

DB_DEFAULTS ==
  [ t \in DbTypes |->
      CASE t = "postgresql" -> [port |-> 5432,  database |-> "postgres"]
        [] t = "mysql"      -> [port |-> 3306,  database |-> "testdb"]
        [] t = "snowflake"  -> [port |-> 443,   database |-> ""]
        [] t = "mongodb"    -> [port |-> 27017, database |-> "test"] ]

\* The <option>s of the select that are not disabled.
SelectableDbTypes == {"postgresql", "mysql"}

\* What the user types into the text inputs.
TextInputs ==
  [ host        |-> {"", "localhost"},
    database    |-> {"", "postgres"},
    schema_name |-> {"redacted_db", "public"},
    user        |-> {"", "dpdp"},
    password    |-> {"", "dpdp"} ]

TextFields == DOMAIN TextInputs

\* What the user types into the port input.
PortInputs == {"", "0", "3306"}

\* parseInt on the port inputs: None is NaN.
parseInt(s) ==
  CASE s = ""     -> None
    [] s = "0"    -> Some(0)
    [] s = "3306" -> Some(3306)

\* parseInt(e.target.value) || 5432
PortValue(s) ==
  LET n == parseInt(s) IN IF n = None \/ n[1] = 0 THEN 5432 ELSE n[1]

(***************************************************************************)
(* The backend: what a request can be answered with.                       *)
(***************************************************************************)
\* TestConnectionResponse bodies of a test call that resolves.
TestResponses ==
  { [success |-> TRUE,  message |-> "Connected", tables_found |-> 3],
    [success |-> FALSE, message |-> "No tables", tables_found |-> 0] }

\* The finding of the happy-path scenario; confidence in hundredths.
HappyFinding ==
  [ table |-> "users", column |-> "email", pii_type |-> "email_address",
    confidence |-> 95, classifier |-> "regex", risk_level |-> "high",
    encryption_status |-> "plaintext", purpose |-> "" ]

\* ScanResponse bodies of a scan call that resolves.
ScanResponses ==
  { [ scan_id |-> "s1", score |-> 82, findings |-> << HappyFinding >>,
      heatmap |-> << [table |-> "users", pii_type |-> "email_address",
                      found |-> TRUE, confidence |-> 95] >>,
      table_stats |-> << [table |-> "users", row_count |-> 7, pii_columns |-> 1] >>,
      consent_mappings |-> << [table |-> "users", column |-> "email",
                               purpose |-> "marketing", subject_id_column |-> None] >> ],
    [ scan_id |-> "s2", score |-> 100, findings |-> << >>,
      heatmap |-> << >>, table_stats |-> << >>, consent_mappings |-> << >> ] }

\* What a rejected call throws: err.response.data.detail (None when any link
\* of the chain is missing) and err.message.
Errors ==
  [ detail  : {None, Some(""), Some("connection timeout")},
    message : {None, Some(""), Some("Network Error")} ]

VARIABLES
  state,        \* App: 'connect' | 'scanning' | 'results'
  scanResult,   \* App: ScanResponse | null
  testResult,   \* App: {success, message} | null
  isTesting,    \* App
  isScanning,   \* App
  progressMsg,  \* App
  error,        \* App: string | null
  params,       \* ConnectionForm state; None while the form is not mounted
  report,       \* ComplianceReport state; None while the report is not mounted
  pending,      \* requests in flight: sequence of [kind, params]
  \* history variables (not program state)
  lastOp,       \* the handler piece that ran last
  lastReply,    \* the reply the last continuation was run with
  lastTest,     \* outcome of the most recent TestConnection
  lastTestComplete, \* the most recent TestConnection was issued with complete parameters
  newScanSinceTest, \* a NewScan ran after the most recent TestConnection was issued
  lastScanOk    \* the reply of the most recent RunScan that succeeded

appVars == << state, scanResult, testResult, isTesting, isScanning, progressMsg, error >>
histVars == << lastOp, lastReply, lastTest, lastTestComplete, newScanSinceTest, lastScanOk >>
vars == << appVars, params, report, pending, histVars >>

(***************************************************************************)
(* App render: which child is mounted.                                     *)
(***************************************************************************)
\* mutant: the form is hidden only during the scan
FormShown_notScanning == state # "scanning"

FormShown == state = "connect"

ProgressShown == state = "scanning"

ReportShown == state = "results" /\ scanResult # None

\* mutant: the form is hidden, not unmounted, and keeps what was entered
FormAfter_keepsParams(wasShown, isShown, p) ==
  IF p = None THEN Some(DEFAULT_PARAMS) ELSE p

\* The ConnectionForm state after the render that follows a state change: a
\* form that stays mounted keeps its state, a form mounted anew starts from
\* DEFAULT_PARAMS, and an unmounted form has none.
FormAfter(wasShown, isShown, p) ==
  IF ~isShown THEN None
  ELSE IF wasShown THEN p
  ELSE Some(DEFAULT_PARAMS)

(***************************************************************************)
(* ConnectionForm: gating of the two buttons.                              *)
(***************************************************************************)
\* host, database, user and password are all non-empty
ParamsComplete(p) ==
  p.host # "" /\ p.database # "" /\ p.user # "" /\ p.password # ""

\* mutant: the password is not required
canTest_noPassword ==
  /\ params # None
  /\ params[1].host # ""
  /\ params[1].database # ""
  /\ params[1].user # ""

canTest ==
  /\ params # None
  /\ params[1].host # ""
  /\ params[1].database # ""
  /\ params[1].user # ""
  /\ params[1].password # ""

\* mutant: any stored test result enables the scan
canScan_anyResult == testResult # None

canScan == testResult # None /\ testResult[1].success = TRUE

\* mutant: the Test button stays enabled while a test is in flight
btnTestDisabled_notWhileTesting == ~canTest \/ isScanning

\* mutant: the Test button ignores the completeness of the parameters
btnTestDisabled_onlyInFlight == isTesting \/ isScanning

btnTestDisabled == ~canTest \/ isTesting \/ isScanning

btnScanDisabled == ~canScan \/ isScanning

\* mutant: the transport message takes precedence over the backend detail
ErrMsg_messageFirst(err, fallback) ==
  IF Truthy(err.message) THEN err.message[1]
  ELSE IF Truthy(err.detail) THEN err.detail[1]
  ELSE fallback

\* mutant: the transport message is skipped
ErrMsg_detailOnly(err, fallback) ==
  IF Truthy(err.detail) THEN err.detail[1] ELSE fallback

\* extraction of the display message of a rejected call
ErrMsg(err, fallback) ==
  IF Truthy(err.detail) THEN err.detail[1]
  ELSE IF Truthy(err.message) THEN err.message[1]
  ELSE fallback

\* the requests in flight without the i-th
Remove(s, i) == SubSeq(s, 1, i - 1) \o SubSeq(s, i + 1, Len(s))

(***************************************************************************)
(* ComplianceReport: the report engine.  Pure functions of the ScanResponse *)
(* and of the view state (sortField, sortAsc, riskFilter).                 *)
(***************************************************************************)
\* Most findings, heatmap cells and table stats of a generated ScanResponse.
MaxFindings == 3

MaxCells == 3

MaxStats == 3

\* every sequence over S of length at most n
SeqUpTo(S, n) == UNION { [1 .. k -> S] : k \in 0 .. n }

SortFields == {"table", "column", "pii_type", "confidence", "risk_level"}

RiskFilters == {"all", "critical", "high"}

RISK_ORDER == [critical |-> 0, high |-> 1, medium |-> 2, low |-> 3]

\* Names every object literal inherits from Object.prototype: obj[name] is a
\* function (or, for __proto__, the prototype object), never undefined.
ObjectPrototypeKeys ==
  { "constructor", "toString", "toLocaleString", "valueOf", "hasOwnProperty",
    "isPrototypeOf", "propertyIsEnumerable", "__proto__" }

\* Canonical numeric strings: as object keys they are integer indices and are
\* enumerated first, in ascending numeric order.
ArrayIndexValue == ("7" :> 7) @@ ("10" :> 10)

\* The strings of the generated data in the order of String.localeCompare
\* (punctuation, then digits, then letters; a prefix before its extensions).
CollationOrder ==
  << "10", "7", "constructor", "email", "email_address", "free_text",
     "national_id", "notes", "orders", "phone", "phone_number", "ssn", "users" >>

CollationIndex(str) == CHOOSE i \in 1 .. Len(CollationOrder) : CollationOrder[i] = str

localeCompare(a, b) ==
  IF a = b THEN 0 ELSE IF CollationIndex(a) < CollationIndex(b) THEN -1 ELSE 1

\* ---- sortedFindings: the filter step ----
\* mutant: the high filter keeps only the findings whose risk is high
FilterFindings_highOnly(items, riskFilter) ==
  IF riskFilter = "critical"
    THEN SelectSeq(items, LAMBDA f : f.risk_level = "critical")
  ELSE IF riskFilter = "high"
    THEN SelectSeq(items, LAMBDA f : f.risk_level = "high")
  ELSE items

FilterFindings(items, riskFilter) ==
  IF riskFilter = "critical"
    THEN SelectSeq(items, LAMBDA f : f.risk_level = "critical")
  ELSE IF riskFilter = "high"
    THEN SelectSeq(items, LAMBDA f : f.risk_level = "critical" \/ f.risk_level = "high")
  ELSE items

\* ---- sortedFindings: the comparator ----
\* RISK_ORDER[r] ?? 4: the own value, 4 when the lookup is undefined, and None
\* (not a number) when the lookup finds an inherited member, which is not
\* nullish.
RiskRank(r) ==
  IF r \in DOMAIN RISK_ORDER THEN Some(RISK_ORDER[r])
  ELSE IF r \in ObjectPrototypeKeys THEN None
  ELSE Some(4)

\* cmp of the comparator; None is NaN
CompareCmp(a, b, sortField) ==
  IF sortField = "confidence" THEN Some(a.confidence - b.confidence)
  ELSE IF sortField = "risk_level" THEN
    LET ra == RiskRank(a.risk_level)
        rb == RiskRank(b.risk_level)
    IN  IF ra = None \/ rb = None THEN None ELSE Some(ra[1] - rb[1])
  ELSE Some(localeCompare(a[sortField], b[sortField]))

\* sortAsc ? cmp : -cmp, as Array.prototype.sort reads it: NaN counts as +0
Compare(a, b, sortField, sortAsc) ==
  LET cmp == CompareCmp(a, b, sortField)
  IN  IF cmp = None THEN 0 ELSE IF sortAsc THEN cmp[1] ELSE 0 - cmp[1]

\* ---- Array.prototype.sort: stable; here by insertion from the right ----
RECURSIVE InsertSorted(_, _, _, _)
InsertSorted(x, sorted, sortField, sortAsc) ==
  IF sorted = << >> THEN << x >>
  ELSE LET n == Len(sorted) IN
    IF Compare(sorted[n], x, sortField, sortAsc) > 0
      THEN Append(InsertSorted(x, SubSeq(sorted, 1, n - 1), sortField, sortAsc), sorted[n])
      ELSE Append(sorted, x)

RECURSIVE SortPrefix(_, _, _, _)
SortPrefix(items, n, sortField, sortAsc) ==
  IF n = 0 THEN << >>
  ELSE InsertSorted(items[n], SortPrefix(items, n - 1, sortField, sortAsc),
                    sortField, sortAsc)

ArraySort(items, sortField, sortAsc) == SortPrefix(items, Len(items), sortField, sortAsc)

sortedFindingsOf(findings, sortField, sortAsc, riskFilter) ==
  ArraySort(FilterFindings(findings, riskFilter), sortField, sortAsc)

\* ---- groupedFindings ----
\* The groups object: its own keys in insertion order with their findings;
\* threw = the loop raised a TypeError.
EmptyGroups == [threw |-> FALSE, entries |-> << >>]

OwnIndex(g, key) ==
  IF \E i \in 1 .. Len(g.entries) : g.entries[i].key = key
    THEN Some(CHOOSE i \in 1 .. Len(g.entries) : g.entries[i].key = key)
    ELSE None

\* if (!groups[f.table]) groups[f.table] = []; groups[f.table].push(f)
GroupPush(g, f) ==
  LET own == OwnIndex(g, f.table) IN
    IF g.threw THEN g
    ELSE IF own # None
      THEN [g EXCEPT !.entries[own[1]].items = Append(@, f)]
    ELSE IF f.table \in ObjectPrototypeKeys
      \* groups[f.table] is the inherited member: truthy, and it has no push
      THEN [g EXCEPT !.threw = TRUE]
    ELSE [g EXCEPT !.entries = Append(@, [key |-> f.table, items |-> << f >>])]

RECURSIVE GroupPrefix(_, _)
GroupPrefix(sorted, n) ==
  IF n = 0 THEN EmptyGroups ELSE GroupPush(GroupPrefix(sorted, n - 1), sorted[n])

groupedFindingsOf(sorted) == GroupPrefix(sorted, Len(sorted))

\* Object.entries / Object.keys: integer-index keys first, ascending, then the
\* other keys in insertion order.
RECURSIVE AscendingIndexEntries(_)
AscendingIndexEntries(es) ==
  IF es = << >> THEN << >>
  ELSE LET m == CHOOSE i \in 1 .. Len(es) :
                  \A j \in 1 .. Len(es) :
                    ArrayIndexValue[es[i].key] <= ArrayIndexValue[es[j].key]
       IN  << es[m] >> \o AscendingIndexEntries(SubSeq(es, 1, m - 1) \o SubSeq(es, m + 1, Len(es)))

\* mutant: integer-index keys in insertion order too
ObjectEntries_insertionOrder(g) == g.entries

ObjectEntries(g) ==
  AscendingIndexEntries(SelectSeq(g.entries, LAMBDA e : e.key \in DOMAIN ArrayIndexValue))
    \o SelectSeq(g.entries, LAMBDA e : e.key \notin DOMAIN ArrayIndexValue)

\* ---- heatmap ----
RECURSIVE DistinctPrefix(_, _)
\* [...new Set(values)]: the values without repeats, in order of first appearance
DistinctPrefix(values, n) ==
  IF n = 0 THEN << >>
  ELSE LET d == DistinctPrefix(values, n - 1) IN
    IF \E i \in 1 .. Len(d) : d[i] = values[n] THEN d ELSE Append(d, values[n])

\* mutant: repeats are kept
Distinct_keepsRepeats(values) == values

Distinct(values) == DistinctPrefix(values, Len(values))

\* `${h.table}|${h.pii_type}`
HeatKey(table, piiType) == table \o "|" \o piiType

\* new Map(cells.map(h => [key, h])).get(key): the last cell stored under the
\* key, None (undefined) when there is none
MapGet(cells, key) ==
  LET hits == { i \in 1 .. Len(cells) : HeatKey(cells[i].table, cells[i].pii_type) = key }
  IN  IF hits = {} THEN None
      ELSE Some(cells[CHOOSE i \in hits : \A j \in hits : j <= i])

heatmapOf(cells) ==
  [ tables   |-> Distinct([i \in 1 .. Len(cells) |-> cells[i].table]),
    piiTypes |-> Distinct([i \in 1 .. Len(cells) |-> cells[i].pii_type]) ]

\* The <tbody> of the heatmap: one row per table, one cell per PII type, each
\* the looked-up cell or None.
HeatmapRows(cells) ==
  LET h == heatmapOf(cells) IN
    [ i \in 1 .. Len(h.tables) |->
        [ j \in 1 .. Len(h.piiTypes) |->
            MapGet(cells, HeatKey(h.tables[i], h.piiTypes[j])) ] ]

\* cell?.found
CellShownFound(cell) == cell # None /\ cell[1].found = TRUE

\* ---- aggregates over table_stats ----
Max(a, b) == IF a >= b THEN a ELSE b

RECURSIVE DataVolumePrefix(_, _)
DataVolumePrefix(stats, n) ==
  IF n = 0 THEN 0 ELSE DataVolumePrefix(stats, n - 1) + Max(0, stats[n].row_count)

RECURSIVE TotalRecordsPrefix(_, _)
TotalRecordsPrefix(stats, n) ==
  IF n = 0 THEN 0 ELSE TotalRecordsPrefix(stats, n - 1) + stats[n].row_count

\* mutant: the stat card sums the raw row counts
DataVolume_unclamped(stats) == TotalRecordsPrefix(stats, Len(stats))

\* the Data Volume stat card: reduce((sum, t) => sum + Math.max(0, t.row_count), 0)
DataVolume(stats) == DataVolumePrefix(stats, Len(stats))

\* the Total Records figure: reduce((sum, t) => sum + t.row_count, 0)
TotalRecords(stats) == TotalRecordsPrefix(stats, Len(stats))

(***************************************************************************)
(* ComplianceReport: view state and what is derived from it on each render. *)
(***************************************************************************)
\* the useState initial values
DEFAULT_VIEW ==
  [ sortField      |-> "risk_level",
    sortAsc        |-> TRUE,
    riskFilter     |-> "all",
    viewMode       |-> "grouped",
    expandedTables |-> {} ]

\* The ComplianceReport state after the render that follows a state change.
ReportAfter(wasShown, isShown, r) ==
  IF ~isShown THEN None
  ELSE IF wasShown THEN r
  ELSE Some(DEFAULT_VIEW)

\* the data prop
data == scanResult[1]

sortedFindings ==
  sortedFindingsOf(data.findings, report[1].sortField, report[1].sortAsc,
                   report[1].riskFilter)

groupedFindings == groupedFindingsOf(sortedFindings)

heatmap == heatmapOf(data.heatmap)

\* The report is on screen: mounted, and its render did not throw.
ReportRenders == ReportShown /\ report # None /\ ~groupedFindings.threw

HeatmapShown == Len(heatmap.piiTypes) > 0

GroupedViewShown == report[1].viewMode = "grouped" /\ report[1].riskFilter = "all"

\* mutant: the flat view follows the view mode alone
FlatViewShown_modeOnly == report[1].viewMode = "flat"

FlatViewShown == report[1].viewMode = "flat" \/ report[1].riskFilter # "all"

VolumeSectionShown == Len(data.table_stats) > 0

ConsentSectionShown == Len(data.consent_mappings) > 0

\* mutant: the score is shown as a bare number
ScoreText_noPercent == ToString(data.score)

\* the text of the score stat card
ScoreText == ToString(data.score) \o "%"

\* the text of the risk badge of a finding row
RiskBadge(f) == f.risk_level

\* the text of the encryption badge of a finding row
EncryptionBadge(f) ==
  IF f.encryption_status = "encrypted" \/ f.encryption_status = "hashed"
    THEN "Yes" ELSE "No"

\* the group headers rendered: table and findings.length of each group
GroupHeadersShown ==
  IF GroupedViewShown
    THEN [i \in 1 .. Len(ObjectEntries(groupedFindings)) |->
            [ table |-> ObjectEntries(groupedFindings)[i].key,
              count |-> Len(ObjectEntries(groupedFindings)[i].items) ]]
    ELSE << >>

\* the findings that have a row on screen: the rows of the flat table, or
\* the bodies of the expanded groups
FindingRowsShown ==
  IF FlatViewShown
    THEN { sortedFindings[i] : i \in 1 .. Len(sortedFindings) }
    ELSE UNION { { e.items[i] : i \in 1 .. Len(e.items) } :
                 e \in { x \in { groupedFindings.entries[k] :
                                   k \in 1 .. Len(groupedFindings.entries) } :
                            x.key \in report[1].expandedTables } }

\* import.meta.env.VITE_API_URL of the build: not set
VITE_API_URL == None

API_BASE == IF Truthy(VITE_API_URL) THEN VITE_API_URL[1] ELSE "/api/v1"

getReportUrl(scanId) == API_BASE \o "/scan/" \o scanId \o "/report"

\* mutant: the script link points to the report
getScriptUrl_reportPath(scanId) == API_BASE \o "/scan/" \o scanId \o "/report"

getScriptUrl(scanId) == API_BASE \o "/scan/" \o scanId \o "/script"

\* href of btn-download-report and btn-download-script
ReportHref == getReportUrl(data.scan_id)

ScriptHref == getScriptUrl(data.scan_id)

(***************************************************************************)
(* Generated ScanResponses for the report engine.                          *)
(***************************************************************************)
MkFinding(table, column, piiType, confidence, risk) ==
  [ table |-> table, column |-> column, pii_type |-> piiType,
    confidence |-> confidence, classifier |-> "regex", risk_level |-> risk,
    encryption_status |-> "plaintext", purpose |-> "" ]

\* Findings with equal and different keys in every sort field, a risk level
\* outside the four, and table names and a risk level that are an integer
\* index or the name of an inherited object member.
FindingInputs ==
  { MkFinding("users",       "email", "email_address", 95, "high"),
    MkFinding("users",       "phone", "phone_number",  80, "critical"),
    MkFinding("orders",      "email", "email_address", 80, "medium"),
    MkFinding("orders",      "notes", "free_text",     50, "low"),
    MkFinding("7",           "phone", "phone_number",  95, "severe"),
    MkFinding("10",          "notes", "free_text",     50, "low"),
    MkFinding("users",       "ssn",   "national_id",   50, "constructor"),
    MkFinding("constructor", "email", "email_address", 80, "critical") }

MkCell(table, piiType, found, confidence) ==
  [table |-> table, pii_type |-> piiType, found |-> found, confidence |-> confidence]

\* Heatmap cells: a repeated pair, and names that contain the "|" of the key.
CellInputs ==
  { MkCell("users",    "email",    TRUE,  95),
    MkCell("users",    "email",    FALSE, 0),
    MkCell("users",    "phone",    FALSE, 0),
    MkCell("orders",   "email",    TRUE,  80),
    MkCell("users|eu", "email",    TRUE,  90),
    MkCell("users",    "eu|email", FALSE, 0) }

StatInputs ==
  { [table |-> "users", row_count |-> c, pii_columns |-> 1] : c \in {-5, 0, 7} }

MkData(findings, cells, stats) ==
  [ scan_id |-> "s3", score |-> 55, findings |-> findings,
    heatmap |-> cells, table_stats |-> stats, consent_mappings |-> << >> ]

\* ScanResponses with one of the three collections generated
EngineInputs ==
  { MkData(f, << >>, << >>) : f \in SeqUpTo(FindingInputs, MaxFindings) }
    \cup { MkData(<< >>, h, << >>) : h \in SeqUpTo(CellInputs, MaxCells) }
    \cup { MkData(<< >>, << >>, t) : t \in SeqUpTo(StatInputs, MaxStats) }

(***************************************************************************)
(* Init: App and ConnectionForm as constructed, nothing in flight.         *)
(***************************************************************************)
Init ==
  /\ state = "connect"
  /\ scanResult = None
  /\ testResult = None
  /\ isTesting = FALSE
  /\ isScanning = FALSE
  /\ progressMsg = ""
  /\ error = None
  /\ params = Some(DEFAULT_PARAMS)
  /\ report = None
  /\ pending = << >>
  /\ lastOp = "init"
  /\ lastReply = None
  /\ lastTest = "none"
  /\ lastTestComplete = FALSE
  /\ newScanSinceTest = FALSE
  /\ lastScanOk = None


\* The render after a handler piece: the form and the report are mounted,
\* kept or unmounted.
Render ==
  /\ params' = FormAfter(FormShown, FormShown', params)
  /\ report' = ReportAfter(ReportShown, ReportShown', report)

(***************************************************************************)
(* ConnectionForm: editing the parameters.                                 *)
(***************************************************************************)
\* mutant: an edit invalidates the stored test result
setField_clearsTestResult(field, value) ==
  /\ params' = Some([params[1] EXCEPT ![field] = value])
  /\ testResult' = None
  /\ UNCHANGED << state, scanResult, isTesting, isScanning, progressMsg, error >>
  /\ UNCHANGED << report, pending, lastTest, lastTestComplete, newScanSinceTest, lastScanOk >>
  /\ lastOp' = "edit"
  /\ lastReply' = None

\* set(field, value) from the onChange of a text input
setField(field, value) ==
  /\ params' = Some([params[1] EXCEPT ![field] = value])
  /\ UNCHANGED << appVars, report, pending, lastTest, lastTestComplete, newScanSinceTest, lastScanOk >>
  /\ lastOp' = "edit"
  /\ lastReply' = None

handleDbTypeChange(dbType) ==
  LET p == params[1]
      defaults == DB_DEFAULTS[dbType]
  IN  /\ params' = Some([p EXCEPT
                           !.db_type = dbType,
                           !.port = defaults.port,
                           !.database = IF p.database = DB_DEFAULTS[p.db_type].database
                                        THEN defaults.database
                                        ELSE p.database])
      /\ UNCHANGED << appVars, report, pending, lastTest, lastTestComplete, newScanSinceTest, lastScanOk >>
      /\ lastOp' = "edit"
      /\ lastReply' = None

(***************************************************************************)
(* App: handleTest, split at its await.                                    *)
(***************************************************************************)
\* mutant: handleTest also enters the scanning state
handleTest_start_setsState(p) ==
  /\ isTesting' = TRUE
  /\ testResult' = None
  /\ error' = None
  /\ state' = "scanning"
  /\ pending' = Append(pending, [kind |-> "test", params |-> p])
  /\ UNCHANGED << scanResult, isScanning, progressMsg >>
  /\ Render
  /\ lastOp' = "handleTest"
  /\ lastReply' = None
  /\ lastTest' = "pending"
  /\ lastTestComplete' = ParamsComplete(p)
  /\ newScanSinceTest' = FALSE
  /\ UNCHANGED lastScanOk

\* mutant: the error of a failed scan survives a new test
handleTest_start_keepsError(p) ==
  /\ isTesting' = TRUE
  /\ testResult' = None
  /\ pending' = Append(pending, [kind |-> "test", params |-> p])
  /\ UNCHANGED << state, scanResult, isScanning, progressMsg, error >>
  /\ Render
  /\ lastOp' = "handleTest"
  /\ lastReply' = None
  /\ lastTest' = "pending"
  /\ lastTestComplete' = ParamsComplete(p)
  /\ newScanSinceTest' = FALSE
  /\ UNCHANGED lastScanOk

handleTest_start(p) ==
  /\ isTesting' = TRUE
  /\ testResult' = None
  /\ error' = None
  /\ pending' = Append(pending, [kind |-> "test", params |-> p])
  /\ UNCHANGED << state, scanResult, isScanning, progressMsg >>
  /\ Render
  /\ lastOp' = "handleTest"
  /\ lastReply' = None
  /\ lastTest' = "pending"
  /\ lastTestComplete' = ParamsComplete(p)
  /\ newScanSinceTest' = FALSE
  /\ UNCHANGED lastScanOk

\* the try branch after the await, then finally
handleTest_try(i, res) ==
  /\ testResult' = Some(res)
  /\ isTesting' = FALSE
  /\ pending' = Remove(pending, i)
  /\ UNCHANGED << state, scanResult, isScanning, progressMsg, error >>
  /\ Render
  /\ lastOp' = "handleTest_try"
  /\ lastReply' = Some(res)
  /\ lastTest' = IF res.success = TRUE THEN "ok" ELSE "fail"
  /\ UNCHANGED << lastTestComplete, newScanSinceTest, lastScanOk >>

\* mutant: no finally block, the catch branch leaves isTesting set
handleTest_catch_noFinally(i, err) ==
  /\ testResult' = Some([success |-> FALSE, message |-> ErrMsg(err, "Connection failed")])
  /\ pending' = Remove(pending, i)
  /\ UNCHANGED << state, scanResult, isTesting, isScanning, progressMsg, error >>
  /\ Render
  /\ lastOp' = "handleTest_catch"
  /\ lastReply' = Some(err)
  /\ lastTest' = "fail"
  /\ UNCHANGED << lastTestComplete, newScanSinceTest, lastScanOk >>

\* the catch branch, then finally
handleTest_catch(i, err) ==
  /\ testResult' = Some([success |-> FALSE, message |-> ErrMsg(err, "Connection failed")])
  /\ isTesting' = FALSE
  /\ pending' = Remove(pending, i)
  /\ UNCHANGED << state, scanResult, isScanning, progressMsg, error >>
  /\ Render
  /\ lastOp' = "handleTest_catch"
  /\ lastReply' = Some(err)
  /\ lastTest' = "fail"
  /\ UNCHANGED << lastTestComplete, newScanSinceTest, lastScanOk >>

(***************************************************************************)
(* App: handleScan, split at its await.                                    *)
(***************************************************************************)
handleScan_start(p) ==
  /\ isScanning' = TRUE
  /\ error' = None
  /\ progressMsg' = "Running PII classifiers across all tables..."
  /\ state' = "scanning"
  /\ pending' = Append(pending, [kind |-> "scan", params |-> p])
  /\ UNCHANGED << scanResult, testResult, isTesting >>
  /\ Render
  /\ lastOp' = "handleScan"
  /\ lastReply' = None
  /\ UNCHANGED << lastTest, lastTestComplete, newScanSinceTest, lastScanOk >>

handleScan_try(i, res) ==
  /\ scanResult' = Some(res)
  /\ state' = "results"
  /\ isScanning' = FALSE
  /\ pending' = Remove(pending, i)
  /\ UNCHANGED << testResult, isTesting, progressMsg, error >>
  /\ Render
  /\ lastOp' = "handleScan_try"
  /\ lastReply' = Some(res)
  /\ lastScanOk' = Some(res)
  /\ UNCHANGED << lastTest, lastTestComplete, newScanSinceTest >>

\* mutant: no finally, the scanning flag stays set
handleScan_catch_noFinally(i, err) ==
  /\ error' = Some(ErrMsg(err, "Scan failed"))
  /\ state' = "connect"
  /\ pending' = Remove(pending, i)
  /\ UNCHANGED << scanResult, testResult, isTesting, isScanning, progressMsg >>
  /\ Render
  /\ lastOp' = "handleScan_catch"
  /\ lastReply' = Some(err)
  /\ UNCHANGED << lastTest, lastTestComplete, newScanSinceTest, lastScanOk >>

handleScan_catch(i, err) ==
  /\ error' = Some(ErrMsg(err, "Scan failed"))
  /\ state' = "connect"
  /\ isScanning' = FALSE
  /\ pending' = Remove(pending, i)
  /\ UNCHANGED << scanResult, testResult, isTesting, progressMsg >>
  /\ Render
  /\ lastOp' = "handleScan_catch"
  /\ lastReply' = Some(err)
  /\ UNCHANGED << lastTest, lastTestComplete, newScanSinceTest, lastScanOk >>

(***************************************************************************)
(* App: handleNewScan.                                                     *)
(***************************************************************************)
\* mutant: the ScanResult is kept
handleNewScan_keepsScanResult ==
  /\ state' = "connect"
  /\ testResult' = None
  /\ error' = None
  /\ UNCHANGED << scanResult, isTesting, isScanning, progressMsg, pending >>
  /\ Render
  /\ lastOp' = "handleNewScan"
  /\ lastReply' = None
  /\ newScanSinceTest' = TRUE
  /\ UNCHANGED << lastTest, lastTestComplete, lastScanOk >>

\* mutant: the test result is kept
handleNewScan_keepsTestResult ==
  /\ state' = "connect"
  /\ scanResult' = None
  /\ error' = None
  /\ UNCHANGED << testResult, isTesting, isScanning, progressMsg, pending >>
  /\ Render
  /\ lastOp' = "handleNewScan"
  /\ lastReply' = None
  /\ newScanSinceTest' = TRUE
  /\ UNCHANGED << lastTest, lastTestComplete, lastScanOk >>

handleNewScan ==
  /\ state' = "connect"
  /\ scanResult' = None
  /\ testResult' = None
  /\ error' = None
  /\ UNCHANGED << isTesting, isScanning, progressMsg, pending >>
  /\ Render
  /\ lastOp' = "handleNewScan"
  /\ lastReply' = None
  /\ newScanSinceTest' = TRUE
  /\ UNCHANGED << lastTest, lastTestComplete, lastScanOk >>

(***************************************************************************)
(* ComplianceReport: the handlers of the view state.                       *)
(***************************************************************************)
\* a handler that sets the view state to v
ViewStep(v) ==
  /\ report' = Some(v)
  /\ UNCHANGED << appVars, params, pending, lastTest, lastTestComplete,
                  newScanSinceTest, lastScanOk >>
  /\ lastOp' = "view"
  /\ lastReply' = None

\* mutant: re-sorting collapses the groups
handleSort_collapses(field) ==
  LET v == report[1] IN
    IF v.sortField = field
      THEN ViewStep([v EXCEPT !.sortAsc = ~v.sortAsc, !.expandedTables = {}])
      ELSE ViewStep([v EXCEPT !.sortField = field, !.sortAsc = TRUE, !.expandedTables = {}])

\* mutant: a new sort field keeps the direction
handleSort_keepsDirection(field) ==
  LET v == report[1] IN
    IF v.sortField = field
      THEN ViewStep([v EXCEPT !.sortAsc = ~v.sortAsc])
      ELSE ViewStep([v EXCEPT !.sortField = field])

handleSort(field) ==
  LET v == report[1] IN
    IF v.sortField = field
      THEN ViewStep([v EXCEPT !.sortAsc = ~v.sortAsc])
      ELSE ViewStep([v EXCEPT !.sortField = field, !.sortAsc = TRUE])

scrollToFindings ==
  ViewStep([report[1] EXCEPT !.riskFilter = "all", !.viewMode = "grouped"])

\* mutant: the High Risk card sets the filter and leaves the view mode
scrollToHighRisk_keepsMode ==
  ViewStep([report[1] EXCEPT !.riskFilter = "high"])

scrollToHighRisk ==
  ViewStep([report[1] EXCEPT !.riskFilter = "high", !.viewMode = "flat"])

\* the onClick of the filter badge
clearFilter ==
  ViewStep([report[1] EXCEPT !.riskFilter = "all", !.viewMode = "grouped"])

setViewMode(mode) == ViewStep([report[1] EXCEPT !.viewMode = mode])

\* mutant: a toggle never removes a table
ToggledSet_addsOnly(prev, table) == prev \cup {table}

\* the updater passed to setExpandedTables
ToggledSet(prev, table) ==
  IF table \in prev THEN prev \ {table} ELSE prev \cup {table}

toggleTable(table) ==
  ViewStep([report[1] EXCEPT !.expandedTables = ToggledSet(report[1].expandedTables, table)])

\* mutant: the inherited members of the groups object are expanded too
expandAll_includesInherited ==
  ViewStep([report[1] EXCEPT !.expandedTables =
              { groupedFindings.entries[i].key : i \in 1 .. Len(groupedFindings.entries) }
                \cup ObjectPrototypeKeys])

expandAll ==
  ViewStep([report[1] EXCEPT !.expandedTables =
              { groupedFindings.entries[i].key : i \in 1 .. Len(groupedFindings.entries) }])

collapseAll == ViewStep([report[1] EXCEPT !.expandedTables = {}])

(***************************************************************************)
(* The user's actions, as the rendered controls allow them, and the        *)
(* backend's replies.                                                      *)
(***************************************************************************)
EditText ==
  /\ FormShown
  /\ \E f \in TextFields : \E v \in TextInputs[f] :
       /\ v # params[1][f]
       /\ setField(f, v)

EditPort ==
  /\ FormShown
  /\ \E s \in PortInputs :
       /\ PortValue(s) # params[1].port
       /\ setField("port", PortValue(s))

SelectDbType ==
  /\ FormShown
  /\ \E t \in SelectableDbTypes :
       /\ t # params[1].db_type
       /\ handleDbTypeChange(t)

ClickTest ==
  /\ FormShown
  /\ ~btnTestDisabled
  /\ Len(pending) < MaxInFlight
  /\ handleTest_start(params[1])

ClickScan ==
  /\ FormShown
  /\ ~btnScanDisabled
  /\ Len(pending) < MaxInFlight
  /\ handleScan_start(params[1])

ClickNewScan ==
  /\ ReportRenders
  /\ handleNewScan

ClickSortHeader ==
  /\ ReportRenders
  /\ FlatViewShown
  /\ \E field \in SortFields : handleSort(field)

ClickPIIColumnsCard ==
  /\ ReportRenders
  /\ scrollToFindings

ClickHighRiskCard ==
  /\ ReportRenders
  /\ scrollToHighRisk

ClickFilterBadge ==
  /\ ReportRenders
  /\ report[1].riskFilter # "all"
  /\ clearFilter

ClickViewToggle ==
  /\ ReportRenders
  /\ report[1].riskFilter = "all"
  /\ \E mode \in {"grouped", "flat"} : setViewMode(mode)

ClickGroupHeader ==
  /\ ReportRenders
  /\ GroupedViewShown
  /\ \E i \in 1 .. Len(ObjectEntries(groupedFindings)) :
       toggleTable(ObjectEntries(groupedFindings)[i].key)

ClickExpandAll ==
  /\ ReportRenders
  /\ GroupedViewShown
  /\ expandAll

ClickCollapseAll ==
  /\ ReportRenders
  /\ GroupedViewShown
  /\ collapseAll

TestResolves ==
  \E i \in 1 .. Len(pending) : \E res \in TestResponses :
    /\ pending[i].kind = "test"
    /\ handleTest_try(i, res)

TestRejects ==
  \E i \in 1 .. Len(pending) : \E err \in Errors :
    /\ pending[i].kind = "test"
    /\ handleTest_catch(i, err)

ScanResolves ==
  \E i \in 1 .. Len(pending) : \E res \in ScanResponses :
    /\ pending[i].kind = "scan"
    /\ handleScan_try(i, res)

ScanRejects ==
  \E i \in 1 .. Len(pending) : \E err \in Errors :
    /\ pending[i].kind = "scan"
    /\ handleScan_catch(i, err)

BackendReplies == TestResolves \/ TestRejects \/ ScanResolves \/ ScanRejects

Next ==
  \/ EditText
  \/ EditPort
  \/ SelectDbType
  \/ ClickTest
  \/ ClickScan
  \/ ClickNewScan
  \/ ClickSortHeader
  \/ ClickPIIColumnsCard
  \/ ClickHighRiskCard
  \/ ClickFilterBadge
  \/ ClickViewToggle
  \/ ClickGroupHeader
  \/ ClickExpandAll
  \/ ClickCollapseAll
  \/ TestResolves
  \/ TestRejects
  \/ ScanResolves
  \/ ScanRejects

Spec == Init /\ [][Next]_vars

\* Every request issued is eventually answered (success or failure).
FairSpec == Spec /\ WF_vars(BackendReplies)

(***************************************************************************)
(* The report engine on generated input: the report as shown after a scan  *)
(* resolved with any of EngineInputs, under every sort field, direction    *)
(* and risk filter, and the sort, filter and view controls from there.     *)
(***************************************************************************)
EngineInit ==
  /\ state = "results"
  /\ \E d \in EngineInputs :
       /\ scanResult = Some(d)
       /\ lastScanOk = Some(d)
  /\ \E sf \in SortFields : \E asc \in BOOLEAN : \E rf \in RiskFilters :
       report = Some([DEFAULT_VIEW EXCEPT
                        !.sortField = sf, !.sortAsc = asc, !.riskFilter = rf])
  /\ testResult = Some([success |-> TRUE, message |-> "Connected", tables_found |-> 3])
  /\ isTesting = FALSE
  /\ isScanning = FALSE
  /\ progressMsg = "Running PII classifiers across all tables..."
  /\ error = None
  /\ params = None
  /\ pending = << >>
  /\ lastOp = "view"
  /\ lastReply = None
  /\ lastTest = "ok"
  /\ lastTestComplete = TRUE
  /\ newScanSinceTest = FALSE

EngineNext ==
  \/ ClickSortHeader
  \/ ClickPIIColumnsCard
  \/ ClickHighRiskCard
  \/ ClickFilterBadge
  \/ ClickViewToggle

EngineSpec == EngineInit /\ [][EngineNext]_vars

(***************************************************************************)
(* The report view on generated input: the report as mounted after a scan  *)
(* resolved with a list of findings, and every control of the view.        *)
(***************************************************************************)
MaxViewFindings == 2

ViewInputs == { MkData(f, << >>, << >>) : f \in SeqUpTo(FindingInputs, MaxViewFindings) }

ViewInit ==
  /\ state = "results"
  /\ \E d \in ViewInputs :
       /\ scanResult = Some(d)
       /\ lastScanOk = Some(d)
  /\ report = Some(DEFAULT_VIEW)
  /\ testResult = Some([success |-> TRUE, message |-> "Connected", tables_found |-> 3])
  /\ isTesting = FALSE
  /\ isScanning = FALSE
  /\ progressMsg = "Running PII classifiers across all tables..."
  /\ error = None
  /\ params = None
  /\ pending = << >>
  /\ lastOp = "handleScan_try"
  /\ lastReply = scanResult
  /\ lastTest = "ok"
  /\ lastTestComplete = TRUE
  /\ newScanSinceTest = FALSE

ViewNext ==
  \/ ClickSortHeader
  \/ ClickPIIColumnsCard
  \/ ClickHighRiskCard
  \/ ClickFilterBadge
  \/ ClickViewToggle
  \/ ClickGroupHeader
  \/ ClickExpandAll
  \/ ClickCollapseAll

ViewSpec == ViewInit /\ [][ViewNext]_vars

TypeOK ==
  /\ state \in {"connect", "scanning", "results"}
  /\ isTesting \in BOOLEAN
  /\ isScanning \in BOOLEAN
  /\ Len(pending) <= MaxInFlight
  /\ (params = None) = ~FormShown
  /\ (report = None) = ~ReportShown

(***************************************************************************)
(* Properties of the workflow controller.                                  *)
(***************************************************************************)
\* a nullable string that JavaScript's || skips
Absent(s) == s \in {None, Some("")}

TestInFlight == \E i \in 1 .. Len(pending) : pending[i].kind = "test"

ScanInFlight == \E i \in 1 .. Len(pending) : pending[i].kind = "scan"

\* C1 as stated: whenever the connection form is shown, the Scan button is
\* enabled if and only if the most recent TestConnection has resolved with
\* success === true.
C1_ScanEnabledIffLastTestOk ==
  FormShown => ((~btnScanDisabled) <=> lastTest = "ok")

\* C1 amended: whenever the connection form is shown, the Scan button is
\* enabled if and only if the most recent TestConnection has resolved with
\* success === true and no NewScan has run since that test was issued (NewScan
\* discards the stored test result).
C1_ScanEnabledIffStoredTestOk ==
  FormShown => ((~btnScanDisabled) <=> (lastTest = "ok" /\ ~newScanSinceTest))

C1_Witness ==
  /\ FormShown
  /\ lastOp = "handleTest_try"
  /\ lastTest = "ok"
  /\ ~btnScanDisabled

\* C2 as stated: after a RunScan that fails, the test result stored before the
\* scan is cleared and the Scan button is disabled.
C2_FailedScanClearsTestResult ==
  lastOp = "handleScan_catch" => (testResult = None /\ btnScanDisabled)

\* C3: when the scan call fails, RunScan ends in state connect with no
\* ScanResult and the top-level error set to the backend detail if present,
\* else the transport message, else "Scan failed".
C3_ScanFailure ==
  lastOp = "handleScan_catch" =>
    LET err == lastReply[1] IN
      /\ state = "connect"
      /\ scanResult = None
      /\ ~Absent(err.detail) => error = err.detail
      /\ (Absent(err.detail) /\ ~Absent(err.message)) => error = err.message
      /\ (Absent(err.detail) /\ Absent(err.message)) => error = Some("Scan failed")

C3_Witness ==
  /\ lastOp = "handleScan_catch"
  /\ lastReply[1].detail = None
  /\ lastReply[1].message = Some("Network Error")
  /\ error = Some("Network Error")
  /\ state = "connect"

\* C4: the workflow state starts at connect and changes only along
\* connect -> scanning (RunScan issued), scanning -> results (scan succeeded),
\* scanning -> connect (scan failed) and results -> connect (NewScan).
C4_Transitions ==
  /\ state = "connect"
  /\ [][ state' # state =>
           \/ state = "connect"  /\ state' = "scanning" /\ lastOp' = "handleScan"
           \/ state = "scanning" /\ state' = "results"  /\ lastOp' = "handleScan_try"
           \/ state = "scanning" /\ state' = "connect"  /\ lastOp' = "handleScan_catch"
           \/ state = "results"  /\ state' = "connect"  /\ lastOp' = "handleNewScan"
       ]_vars

\* a failed scan after an earlier scan succeeded and was reset: all four
\* transitions have been taken
C4_Witness ==
  /\ lastOp = "handleScan_catch"
  /\ lastScanOk # None
  /\ state = "connect"

\* C5: a ScanResult is held if and only if the workflow state is results; in
\* results it is the result of the most recent successful RunScan; NewScan
\* discards it.
C5_ScanResultIffResults ==
  /\ (scanResult # None) <=> (state = "results")
  /\ state = "results" => scanResult = lastScanOk
  /\ lastOp = "handleNewScan" => scanResult = None

C5_Witness ==
  /\ state = "results"
  /\ lastOp = "handleScan_try"
  /\ scanResult = lastScanOk
  /\ scanResult[1].scan_id = "s2"

\* C6: at most one backend request is in flight at any time, and no test is
\* in flight once a scan has been issued (outside connect, or while scanning).
C6_OneRequestInFlight ==
  /\ Len(pending) <= 1
  /\ TestInFlight => (state = "connect" /\ ~isScanning /\ isTesting)
  /\ ScanInFlight => (state = "scanning" /\ isScanning /\ ~isTesting)

C6_Witness ==
  /\ ScanInFlight
  /\ lastTest = "ok"
  /\ Len(pending) = 1

\* C7: with every request eventually answered, every TestConnection
\* eventually clears the testing flag and every RunScan the scanning flag, on
\* success and on failure; the workflow leaves scanning; every failure leaves
\* it in connect.
C7_FlagsCleared ==
  /\ isTesting ~> ~isTesting
  /\ isScanning ~> ~isScanning
  /\ (state = "scanning") ~> (state # "scanning")
  /\ [](lastOp \in {"handleTest_try", "handleTest_catch"} => ~isTesting)
  /\ [](lastOp \in {"handleScan_try", "handleScan_catch"} => ~isScanning)
  /\ [](lastOp \in {"handleTest_catch", "handleScan_catch"} => state = "connect")

C7_Witness ==
  /\ lastOp = "handleScan_catch"
  /\ ~isScanning
  /\ ~isTesting
  /\ state = "connect"
  /\ pending = << >>

\* C8: a failed test call completes with the test result {success: false,
\* message}, message being the backend detail if present, else the transport
\* message, else "Connection failed"; a test call that resolves stores the
\* backend response.
C8_TestOutcomeStored ==
  /\ lastOp = "handleTest_catch" =>
       LET err == lastReply[1] IN
         /\ testResult # None
         /\ testResult[1].success = FALSE
         /\ ~Absent(err.detail) => Some(testResult[1].message) = err.detail
         /\ (Absent(err.detail) /\ ~Absent(err.message)) =>
              Some(testResult[1].message) = err.message
         /\ (Absent(err.detail) /\ Absent(err.message)) =>
              testResult[1].message = "Connection failed"
  /\ lastOp = "handleTest_try" => testResult = lastReply
  /\ TestInFlight => ENABLED TestRejects

C8_Witness ==
  /\ lastOp = "handleTest_catch"
  /\ lastReply[1].detail = Some("")
  /\ lastReply[1].message = Some("Network Error")
  /\ testResult = Some([success |-> FALSE, message |-> "Network Error"])

\* C9: TestConnection leaves the workflow state at connect and the ScanResult
\* unchanged, from issue to completion; it writes only the testing flag, the
\* test result and the error.
C9_TestFrame ==
  /\ [](TestInFlight => state = "connect")
  /\ [][ lastOp' \in {"handleTest", "handleTest_try", "handleTest_catch"} =>
           /\ state = "connect"
           /\ state' = state
           /\ scanResult' = scanResult
           /\ isScanning' = isScanning
           /\ progressMsg' = progressMsg
           /\ params' = params
       ]_vars

\* a test issued and completed after an earlier scan attempt
C9_Witness ==
  /\ lastOp = "handleTest_try"
  /\ state = "connect"
  /\ progressMsg # ""
  /\ error = None

\* C10: after NewScan the state is connect, the ScanResult and the test
\* result are discarded (Scan is disabled), the error is cleared and no
\* request is in flight.
C10_NewScanResets ==
  lastOp = "handleNewScan" =>
    /\ state = "connect"
    /\ scanResult = None
    /\ testResult = None
    /\ btnScanDisabled
    /\ error = None
    /\ pending = << >>
    /\ ~isTesting
    /\ ~isScanning

C10_Witness ==
  /\ lastOp = "handleNewScan"
  /\ lastTest = "ok"
  /\ lastScanOk # None
  /\ btnScanDisabled

(***************************************************************************)
(* Properties of the gating by the connection parameters.                  *)
(***************************************************************************)
\* C11 as stated: RunScan is never issued with parameters whose host,
\* database, user or password is empty.
C11_ScanParamsComplete ==
  \A i \in 1 .. Len(pending) :
    pending[i].kind = "scan" => ParamsComplete(pending[i].params)

\* C11 amended: only TestConnection is gated on the completeness of the
\* parameters; RunScan is issued only while the stored test result has
\* success true and comes from a TestConnection issued with non-empty host,
\* database, user and password.  The parameters sent with the scan are those
\* of the form at the click and may have empty fields.
C11_ScanAfterCompleteTest ==
  ScanInFlight => (canScan /\ lastTest = "ok" /\ lastTestComplete)

\* a scan in flight that was sent with an incomplete form
C11_Witness ==
  /\ ScanInFlight
  /\ ~ParamsComplete(pending[1].params)
  /\ lastTestComplete

\* C12: TestConnection is issued only with host, database, user and password
\* all non-empty and with no other request in flight; in the initial form
\* state and whenever one of the four fields is empty the Test button is
\* disabled and no request can be sent.
C12_TestGated ==
  /\ \A i \in 1 .. Len(pending) :
       pending[i].kind = "test" => (ParamsComplete(pending[i].params) /\ Len(pending) = 1)
  /\ lastOp = "init" => (btnTestDisabled /\ ~ENABLED ClickTest)
  /\ (FormShown /\ ~ParamsComplete(params[1])) => (btnTestDisabled /\ ~ENABLED ClickTest)

C12_Witness ==
  /\ lastOp = "handleTest"
  /\ TestInFlight
  /\ ParamsComplete(pending[1].params)
  /\ btnTestDisabled

(***************************************************************************)
(* Properties of the report engine.                                        *)
(***************************************************************************)
\* how often x occurs in the sequence
Count(x, seq) == Cardinality({ i \in 1 .. Len(seq) : seq[i] = x })

\* critical < high < medium < low < every other risk value
RiskClass(r) ==
  CASE r = "critical" -> 0
    [] r = "high"     -> 1
    [] r = "medium"   -> 2
    [] r = "low"      -> 3
    [] OTHER          -> 4

SameKey(a, b, sortField) ==
  IF sortField = "risk_level"
    THEN RiskClass(a.risk_level) = RiskClass(b.risk_level)
    ELSE a[sortField] = b[sortField]

PassesFilter(f, riskFilter) ==
  CASE riskFilter = "all"      -> TRUE
    [] riskFilter = "critical" -> f.risk_level = "critical"
    [] riskFilter = "high"     -> f.risk_level \in {"critical", "high"}

\* the elements of seq that are a or b, in their order
Only(seq, a, b) == SelectSeq(seq, LAMBDA f : f \in {a, b})

FindingsOf(seq) == { seq[i] : i \in 1 .. Len(seq) }

\* C13 as stated: sorted by risk_level ascending, every critical finding
\* comes before every high, medium, low and every finding with another risk
\* value, in this order; and under every sort field and direction findings
\* with equal keys keep their relative order of the findings collection.
C13_RiskOrderAndStability ==
  report # None =>
    LET v == report[1]
        sorted == sortedFindings
        kept == FilterFindings(data.findings, v.riskFilter)
    IN  /\ (v.sortField = "risk_level" /\ v.sortAsc) =>
             \A i, j \in 1 .. Len(sorted) :
               i < j => RiskClass(sorted[i].risk_level) <= RiskClass(sorted[j].risk_level)
        /\ \A a, b \in FindingsOf(kept) :
             SameKey(a, b, v.sortField) => Only(sorted, a, b) = Only(kept, a, b)

\* C14 as stated: filtering then sorting gives the same sequence (and
\* multiset) as sorting the full list then filtering, and the result holds
\* every finding that passes the filter exactly as often as the collection.
C14_FilterSortCommute ==
  report # None =>
    LET v == report[1]
        filterThenSort == sortedFindings
        sortThenFilter ==
          FilterFindings(ArraySort(data.findings, v.sortField, v.sortAsc), v.riskFilter)
    IN  /\ \A f \in FindingsOf(data.findings) :
             /\ Count(f, filterThenSort) = Count(f, sortThenFilter)
             /\ Count(f, filterThenSort) =
                  IF PassesFilter(f, v.riskFilter) THEN Count(f, data.findings) ELSE 0
        /\ filterThenSort = sortThenFilter

\* C15 as stated: the groups partition the sorted-and-filtered findings: each
\* finding is in exactly the group keyed by its table name, as often as in
\* the list, and the group keys are the distinct table names present.
C15_GroupingPartition ==
  report # None =>
    LET g == groupedFindings
        sorted == sortedFindings
    IN  /\ ~g.threw
        /\ { g.entries[i].key : i \in 1 .. Len(g.entries) } =
             { sorted[i].table : i \in 1 .. Len(sorted) }
        /\ \A i, j \in 1 .. Len(g.entries) : g.entries[i].key = g.entries[j].key => i = j
        /\ \A f \in FindingsOf(sorted) : \A i \in 1 .. Len(g.entries) :
             Count(f, g.entries[i].items) =
               IF g.entries[i].key = f.table THEN Count(f, sorted) ELSE 0

\* C16 as stated: the groups are rendered in the order in which their table
\* first appears in the sorted findings, and within a group the findings
\* keep the order they have in the sorted findings.
C16_GroupingOrder ==
  (report # None /\ ~groupedFindings.threw) =>
    LET rendered == ObjectEntries(groupedFindings)
        sorted == sortedFindings
        firstSeen == { i \in 1 .. Len(sorted) :
                         \A j \in 1 .. (i - 1) : sorted[j].table # sorted[i].table }
    IN  /\ Len(rendered) = Cardinality(firstSeen)
        /\ \A k \in 1 .. Len(rendered) :
             /\ \E i \in firstSeen :
                  /\ sorted[i].table = rendered[k].key
                  /\ Cardinality({ j \in firstSeen : j < i }) = k - 1
             /\ rendered[k].items =
                  SelectSeq(sorted, LAMBDA f : f.table = rendered[k].key)

CellsOf(cells) == { cells[i] : i \in 1 .. Len(cells) }

HasCellFor(cells, t, p) == \E c \in CellsOf(cells) : c.table = t /\ c.pii_type = p

\* C17: for a non-empty heatmap collection the matrix is rendered with
\* exactly |tables| x |pii_types| cells, one per pair of a distinct table and
\* a distinct PII type; each is a source cell, or the not-found default, and
\* then the collection has no cell for the pair.
C17_HeatmapTotal ==
  (report # None /\ data.heatmap # << >>) =>
    LET cells == data.heatmap
        rows == HeatmapRows(cells)
        T == { c.table : c \in CellsOf(cells) }
        P == { c.pii_type : c \in CellsOf(cells) }
    IN  /\ HeatmapShown
        /\ Len(rows) = Cardinality(T)
        /\ \A i \in 1 .. Len(rows) : Len(rows[i]) = Cardinality(P)
        /\ { << heatmap.tables[i], heatmap.piiTypes[j] >> :
               i \in 1 .. Len(heatmap.tables), j \in 1 .. Len(heatmap.piiTypes) } = T \X P
        /\ \A i \in 1 .. Len(rows) : \A j \in 1 .. Len(rows[i]) :
             \/ rows[i][j] # None /\ rows[i][j][1] \in CellsOf(cells)
             \/ rows[i][j] = None
                  /\ ~HasCellFor(cells, heatmap.tables[i], heatmap.piiTypes[j])

\* two tables and two PII types with a pair that has no cell
C17_Witness ==
  /\ report # None
  /\ Len(data.heatmap) = 3
  /\ Len(heatmap.tables) = 2
  /\ Len(heatmap.piiTypes) = 2
  /\ \E i, j \in 1 .. 2 : HeatmapRows(data.heatmap)[i][j] = None

\* C18 as stated: tables and PII types are listed without repeats in order of
\* first appearance; for every pair (t, p) of the matrix the cell looked up
\* has table t and pii_type p, is found exactly when the collection has a
\* cell for the pair, and is shown as found only if a cell of exactly that
\* pair has found = true.
C18_HeatmapLookupByPair ==
  report # None =>
    LET cells == data.heatmap
        rows == HeatmapRows(cells)
        NoRepeat(seq) == \A i, j \in 1 .. Len(seq) : seq[i] = seq[j] => i = j
        FirstSeenOrder(seq, field) ==
          \A i, j \in 1 .. Len(seq) :
            i < j => \E m \in 1 .. Len(cells) :
                       /\ cells[m][field] = seq[i]
                       /\ \A n \in 1 .. m : cells[n][field] # seq[j]
    IN  /\ NoRepeat(heatmap.tables) /\ NoRepeat(heatmap.piiTypes)
        /\ FirstSeenOrder(heatmap.tables, "table")
        /\ FirstSeenOrder(heatmap.piiTypes, "pii_type")
        /\ \A i \in 1 .. Len(rows) : \A j \in 1 .. Len(rows[i]) :
             LET t == heatmap.tables[i]
                 p == heatmap.piiTypes[j]
                 cell == rows[i][j]
             IN  /\ cell # None => (cell[1].table = t /\ cell[1].pii_type = p)
                 /\ (cell # None) <=> HasCellFor(cells, t, p)
                 /\ CellShownFound(cell) =>
                      \E c \in CellsOf(cells) : c.table = t /\ c.pii_type = p /\ c.found

\* C19: the findings shown are those of the full collection that pass the
\* risk filter, each as often as in the collection: all passes every finding,
\* critical those with risk_level critical, high those with risk_level
\* critical or high.
C19_FilterSemantics ==
  report # None =>
    /\ \A f \in FindingsOf(data.findings) :
         Count(f, sortedFindings) =
           IF PassesFilter(f, report[1].riskFilter) THEN Count(f, data.findings) ELSE 0
    /\ FindingsOf(sortedFindings) \subseteq FindingsOf(data.findings)

\* the critical filter drops a high and another finding and keeps the critical
C19_Witness ==
  /\ report # None
  /\ report[1].riskFilter = "critical"
  /\ Len(data.findings) = 3
  /\ Len(sortedFindings) = 1
  /\ \E i \in 1 .. 3 : data.findings[i].risk_level = "high"

RECURSIVE SumSeq(_)
SumSeq(ns) == IF ns = << >> THEN 0 ELSE ns[1] + SumSeq(Tail(ns))

\* C20: Data Volume is the sum of max(0, row_count), Total Records the plain
\* sum of row_count; so Data Volume >= Total Records, with equality exactly
\* when no row count is negative (Total Records itself can be negative).
C20_VolumeAsymmetry ==
  report # None =>
    LET stats == data.table_stats
        rowCounts == [i \in 1 .. Len(stats) |-> stats[i].row_count]
        clamped == [i \in 1 .. Len(stats) |->
                      IF stats[i].row_count < 0 THEN 0 ELSE stats[i].row_count]
    IN  /\ DataVolume(stats) = SumSeq(clamped)
        /\ TotalRecords(stats) = SumSeq(rowCounts)
        /\ DataVolume(stats) >= TotalRecords(stats)
        /\ (DataVolume(stats) = TotalRecords(stats)) <=>
             (\A i \in 1 .. Len(stats) : stats[i].row_count >= 0)

\* a negative Total Records beside a positive Data Volume
C20_Witness ==
  /\ report # None
  /\ VolumeSectionShown
  /\ TotalRecords(data.table_stats) < 0
  /\ DataVolume(data.table_stats) > 0

(***************************************************************************)
(* Properties of the report view state.                                    *)
(***************************************************************************)
\* the view state before and after a step of the mounted report
Mounted == report # None

\* C21: a step that changes the sort field, the direction or the risk filter
\* leaves the expanded tables as they are; while the report stays mounted the
\* expanded tables change only by a toggle (one table in or out), expand all
\* or collapse all, with sort and filter untouched; a report that is newly
\* mounted starts with no table expanded.
C21_ExpansionFrame ==
  [][ /\ (Mounted /\ Mounted') =>
           LET old == report[1]
               new == report'[1]
               groupKeys == { sortedFindings[i].table : i \in 1 .. Len(sortedFindings) }
           IN  /\ (new.sortField # old.sortField \/ new.sortAsc # old.sortAsc
                     \/ new.riskFilter # old.riskFilter)
                    => new.expandedTables = old.expandedTables
               /\ new.expandedTables # old.expandedTables =>
                    /\ new.sortField = old.sortField
                    /\ new.sortAsc = old.sortAsc
                    /\ new.riskFilter = old.riskFilter
                    /\ new.viewMode = old.viewMode
                    /\ \/ \E t \in groupKeys :
                            new.expandedTables \in
                              { old.expandedTables \cup {t}, old.expandedTables \ {t} }
                       \/ new.expandedTables = groupKeys
                       \/ new.expandedTables = {}
      /\ (~Mounted /\ Mounted') => report'[1].expandedTables = {}
    ]_vars

\* an expanded group survives a change of filter, sort field and direction
C21_Witness ==
  /\ Mounted
  /\ report[1].expandedTables = {"users"}
  /\ report[1].riskFilter = "high"
  /\ report[1].sortField = "table"
  /\ ~report[1].sortAsc

\* C22: the expansion set starts empty; toggling table t puts t in if it was
\* out and takes it out if it was in, and changes no other member; expand all
\* makes it the set of the tables of the current groups; collapse all makes
\* it empty.
C22_ExpansionOperations ==
  /\ report[1].expandedTables = {}
  /\ [](Mounted =>
          \A t \in { data.findings[i].table : i \in 1 .. Len(data.findings) } :
            LET old == report[1].expandedTables
                new == ToggledSet(old, t)
            IN  /\ (t \in new) = (t \notin old)
                /\ new \ {t} = old \ {t}
                /\ ToggledSet(new, t) = old)
  /\ [][ LET groupKeys == { sortedFindings[i].table : i \in 1 .. Len(sortedFindings) }
             old == report[1].expandedTables
         IN  /\ ClickGroupHeader =>
                  \E t \in groupKeys :
                    /\ (t \in report'[1].expandedTables) = (t \notin old)
                    /\ report'[1].expandedTables \ {t} = old \ {t}
             /\ ClickExpandAll => report'[1].expandedTables = groupKeys
             /\ ClickCollapseAll => report'[1].expandedTables = {}
       ]_vars

\* one of two groups is expanded, the other not
C22_Witness ==
  /\ Mounted
  /\ ~groupedFindings.threw
  /\ Len(groupedFindings.entries) = 2
  /\ Cardinality(report[1].expandedTables) = 1
  /\ report[1].expandedTables \subseteq
       { groupedFindings.entries[i].key : i \in 1 .. 2 }

\* C23: exactly one of the grouped and the flat view is rendered; the grouped
\* view exactly when the view mode is grouped and the filter is all; the flat
\* view whenever a risk filter is active, whatever the view mode.
C23_OneFindingsView ==
  Mounted =>
    /\ GroupedViewShown # FlatViewShown
    /\ GroupedViewShown <=> (report[1].viewMode = "grouped" /\ report[1].riskFilter = "all")
    /\ report[1].riskFilter # "all" => (FlatViewShown /\ ~GroupedViewShown)
    /\ report[1].viewMode \in {"grouped", "flat"}

\* view mode grouped under an active filter: the flat view is rendered
C23_Witness ==
  /\ Mounted
  /\ report[1].viewMode = "grouped"
  /\ report[1].riskFilter # "all"
  /\ FlatViewShown

\* C24: a newly mounted report sorts by risk_level ascending; a step that
\* changes the sort either keeps the field and flips the direction, or sets
\* another field with direction ascending, and changes nothing else of the
\* view; a click on a sort header always changes the sort, to the field
\* clicked.
C24_SortSelection ==
  [][ /\ (~Mounted /\ Mounted') =>
           (report'[1].sortField = "risk_level" /\ report'[1].sortAsc)
      /\ (Mounted /\ Mounted') =>
           LET old == report[1]
               new == report'[1]
           IN  /\ (new.sortField # old.sortField \/ new.sortAsc # old.sortAsc) =>
                    /\ \/ new.sortField = old.sortField /\ new.sortAsc = ~old.sortAsc
                       \/ new.sortField # old.sortField /\ new.sortAsc = TRUE
                    /\ new.riskFilter = old.riskFilter
                    /\ new.viewMode = old.viewMode
                    /\ new.expandedTables = old.expandedTables
               /\ \A f \in SortFields :
                    (ReportRenders /\ FlatViewShown /\ handleSort(f)) =>
                      /\ new.sortField = f
                      /\ new.sortAsc = (f # old.sortField \/ ~old.sortAsc)
    ]_vars

\* the current field selected again: descending
C24_Witness ==
  /\ Mounted
  /\ report[1].sortField = "confidence"
  /\ ~report[1].sortAsc
  /\ lastOp = "view"

(***************************************************************************)
(* Properties of what the report shows.                                    *)
(***************************************************************************)
\* C25 as stated: the report renders for every ScanResult, whatever strings
\* are its table names, PII types and risk levels; with empty findings,
\* heatmap, consent mappings and table stats it shows the stat cards, no
\* group and no row, Data Volume 0, and no heatmap, consent or volume
\* section.
C25_NeverFails ==
  Mounted =>
    /\ ReportRenders
    /\ (data.findings = << >> /\ data.heatmap = << >>
          /\ data.consent_mappings = << >> /\ data.table_stats = << >>) =>
         /\ ObjectEntries(groupedFindings) = << >>
         /\ sortedFindings = << >>
         /\ FindingRowsShown = {}
         /\ DataVolume(data.table_stats) = 0
         /\ ~HeatmapShown
         /\ ~ConsentSectionShown
         /\ ~VolumeSectionShown

\* the report of the happy-path scan is held
HappyData ==
  /\ scanResult # None
  /\ data.score = 82
  /\ data.findings = << HappyFinding >>

HappyBadgesShown ==
  \E f \in FindingRowsShown : RiskBadge(f) = "high" /\ EncryptionBadge(f) = "No"

\* C26 as stated: when the scan of the happy path has resolved, the state is
\* results and the UI shows score "82%", exactly one group "users" with 1
\* finding, the risk badge "high" and the encryption badge "No".
C26_HappyPathShowsBadges ==
  (lastOp = "handleScan_try" /\ HappyData) =>
    /\ state = "results"
    /\ ReportRenders
    /\ ScoreText = "82%"
    /\ GroupHeadersShown = << [table |-> "users", count |-> 1] >>
    /\ HappyBadgesShown

\* C26 amended: when the scan of the happy path has resolved, the state is
\* results and the UI shows score "82%" and exactly one group "users" with 1
\* finding, collapsed, so no finding row and no badge is on screen; the row
\* with risk badge "high" and encryption badge "No" is shown exactly while
\* the group is expanded or the flat view is shown.
C26_HappyPathCollapsed ==
  HappyData =>
    /\ state = "results"
    /\ ReportRenders
    /\ ScoreText = "82%"
    /\ GroupedViewShown => GroupHeadersShown = << [table |-> "users", count |-> 1] >>
    /\ lastOp = "handleScan_try" =>
         /\ lastTest = "ok"
         /\ GroupedViewShown
         /\ FindingRowsShown = {}
    /\ HappyBadgesShown <=> (FlatViewShown \/ "users" \in report[1].expandedTables)
    /\ \A f \in FindingRowsShown : RiskBadge(f) = "high" /\ EncryptionBadge(f) = "No"

\* the group of the happy path expanded: the badges are on screen
C26_Witness ==
  /\ HappyData
  /\ Mounted
  /\ GroupedViewShown
  /\ report[1].expandedTables = {"users"}
  /\ HappyBadgesShown

\* C27: the report link is the API base path followed by /scan/{scan_id}/report
\* and the script link the base path followed by /scan/{scan_id}/script, with
\* the scan_id of the ScanResult held, and showing them has no request in flight.
C27_DownloadUrls ==
  Mounted =>
    /\ ReportHref = API_BASE \o "/scan/" \o lastScanOk[1].scan_id \o "/report"
    /\ ScriptHref = API_BASE \o "/scan/" \o lastScanOk[1].scan_id \o "/script"
    /\ data.scan_id = "s2" =>
         (ReportHref = "/api/v1/scan/s2/report" /\ ScriptHref = "/api/v1/scan/s2/script")
    /\ pending = << >>

\* the links of a second scan follow its scan_id
C27_Witness ==
  /\ Mounted
  /\ newScanSinceTest = FALSE
  /\ data.scan_id = "s2"
  /\ ScriptHref = "/api/v1/scan/s2/script"

(***************************************************************************)
(* Further properties of the workflow controller.                          *)
(***************************************************************************)
\* C28: a step that changes the parameters of the shown form (an edit of a
\* field or a change of the database type) leaves the stored test result and
\* the enabledness of the Scan button as they were.
C28_EditKeepsTestResult ==
  [][ (params # None /\ params' # None /\ params' # params) =>
        /\ testResult' = testResult
        /\ canScan' = canScan
        /\ btnScanDisabled' = btnScanDisabled
        /\ lastTest' = lastTest
    ]_vars

\* a scan in flight whose host was emptied after the test that enabled it
C28_Witness ==
  /\ ScanInFlight
  /\ lastTest = "ok"
  /\ lastTestComplete
  /\ ~newScanSinceTest
  /\ pending[1].params.host = ""
  /\ pending[1].params.db_type = "mysql"

\* C29: the scanning flag is true exactly in state scanning, and the testing
\* flag is true only in state connect with no test result stored.
C29_FlagsFollowState ==
  /\ isScanning <=> state = "scanning"
  /\ isTesting => (state = "connect" /\ testResult = None)

C29_Witness ==
  /\ isTesting
  /\ ~isScanning
  /\ state = "connect"
  /\ testResult = None
  /\ lastOp = "handleTest"
  /\ lastScanOk # None

\* C30: the error is set only in state connect, only by a failed RunScan, and
\* is kept only by steps that issue no TestConnection, RunScan or NewScan;
\* each of these three clears it, so it is never set in scanning or results.
C30_ErrorOnlyAfterFailedScan ==
  [][ /\ error' # None =>
           /\ state' = "connect"
           /\ error'[1] # ""
           /\ \/ lastOp' = "handleScan_catch"
              \/ /\ error' = error
                 /\ lastOp' \notin {"handleTest", "handleScan", "handleNewScan"}
      /\ lastOp' \in {"handleTest", "handleScan", "handleNewScan"} => error' = None
      /\ state' \in {"scanning", "results"} => error' = None
    ]_vars

\* the banner of a failed scan still shown while the form is edited
C30_Witness ==
  /\ error # None
  /\ state = "connect"
  /\ lastOp = "edit"
  /\ ~ScanInFlight

(***************************************************************************)
(* Reachable view states and the lifetime of the credentials.              *)
(***************************************************************************)
\* C31: from the mounted report on, the risk filter is all or high, never
\* critical, and the view mode is flat whenever the filter is not all; a
\* step that clears the filter, and every click on the filter badge or the
\* PII Columns card, leaves the view mode grouped.
C31_FilterImpliesFlat ==
  /\ [](Mounted =>
          /\ report[1].riskFilter \in {"all", "high"}
          /\ report[1].riskFilter # "all" => report[1].viewMode = "flat")
  /\ [][ (Mounted /\ Mounted') =>
           /\ (report[1].riskFilter # "all" /\ report'[1].riskFilter = "all")
                => report'[1].viewMode = "grouped"
           /\ (ClickFilterBadge \/ ClickPIIColumnsCard) =>
                (report'[1].riskFilter = "all" /\ report'[1].viewMode = "grouped")
       ]_vars

\* the high filter with the flat table, sorted by another column
C31_Witness ==
  /\ Mounted
  /\ report[1].riskFilter = "high"
  /\ report[1].viewMode = "flat"
  /\ report[1].sortField = "pii_type"
  /\ Len(sortedFindings) < Len(data.findings)

\* C32: the expanded tables are among the table names of the findings of the
\* ScanResult shown.
C32_ExpandedAreTables ==
  Mounted =>
    report[1].expandedTables \subseteq
      { data.findings[i].table : i \in 1 .. Len(data.findings) }

\* both tables of the findings expanded, then the high filter applied
C32_Witness ==
  /\ Mounted
  /\ Cardinality(report[1].expandedTables) = 2
  /\ report[1].riskFilter = "high"

\* C33: a step that brings the workflow back to connect, from scanning or
\* from results, shows a form with the default parameters, user and password
\* empty, and leaves no request in flight; in results no form state and no
\* request is held.
C33_CredentialsDropped ==
  [][ /\ (state # "connect" /\ state' = "connect") =>
           /\ params' = Some(DEFAULT_PARAMS)
           /\ params'[1].user = ""
           /\ params'[1].password = ""
           /\ pending' = << >>
      /\ state' = "results" => (params' = None /\ pending' = << >>)
      /\ state' = "scanning" => params' = None
    ]_vars

\* back on the default form after the scan with the entered credentials failed
C33_Witness ==
  /\ lastOp = "handleScan_catch"
  /\ lastTestComplete
  /\ params = Some(DEFAULT_PARAMS)
  /\ ~ParamsComplete(params[1])
  /\ pending = << >>

=============================================================================
